---- MODULE Spec2Model ----
(***************************************************************************)
(* The synthetic activity generator of autoimport.py: the snapshot load,   *)
(* the two batch operations and the main loop, over a database with        *)
(* per-connection transactions (statements of an open transaction are      *)
(* private to it until commit; rollback or close discards them).           *)
(***************************************************************************)
EXTENDS Integers, Sequences, FiniteSets, TLC

\* ------------------------------------------------------------------ bounds
\* The loop is unbounded in the source; the model stops after MaxIter iterations.
MaxIter == 2
\* Records per activity batch (RECORDS_PER_BATCH_VLE is 5 in the source).
MaxBatchVle == 2
\* Records per assessment batch (RECORDS_PER_BATCH_ASSESSMENT is 200 in the source).
MaxBatchAsm == 2

\* --------------------------------------------------------- program constants
\* LIMIT of the student query.
StudentLimit == 1000
\* random.randint(1, 50): the smallest click increment.
ClickLo == 1

\* ------------------------------------------------------------ value universes
StudentUniverse == {11, 12, 13}
ModuleUniverse == {<<"AAA", "2013J">>, <<"BBB", "2014B">>}
SiteUniverse == {501, 502}
AssessmentUniverse == {1, 2}

\* Sampled day offsets of an activity record, a subset of randint(0, 100).
VleDates == {5}
\* Variant: the increment is drawn from randint(0, 50).
ClicksFromZero == {ClickLo - 1, ClickLo}

\* Sampled click increments, a subset of randint(1, 50).
Clicks == {ClickLo, ClickLo + 1}
\* Sampled (date_submitted, score) of an assessment record; the score is in
\* tenths (55.0 is 550), a subset of randint(10, 100) x round(uniform(30, 95), 1).
Submissions == {<<10, 550>>, <<20, 700>>}
\* random.choice([0, 0, 0, 1])
BankedChoices == {0, 0, 0, 1}

\* The values the random source yields in one run. A run varies either the
\* activity draws or the assessment draws; the other batch draws a fixed value.
DrawProfiles ==
    {[clicks |-> Clicks, submissions |-> {<<10, 550>>}, banked |-> {0}],
     [clicks |-> {ClickLo}, submissions |-> Submissions, banked |-> BankedChoices]}

None == "None"
EmptyFn == [x \in {} |-> 0]

VleKeys ==
    {<<s, t, m[1], m[2], d>> : s \in StudentUniverse, t \in SiteUniverse,
                               m \in ModuleUniverse, d \in VleDates}
AsmKeys == StudentUniverse \X AssessmentUniverse

VARIABLES
    \* reference tables of the database
    studentinfo, courses, vle, assessments,
    \* fact tables: key -> the sequence of rows stored under that key
    studentvle, studentassessment,
    \* the values the random source yields in this run
    draws,
    \* per generator process
    pc, open_conns, tx, fetched, valid_keys,
    iteration, total_vle_records, total_assessment_records,
    loop_i, records_inserted, records_updated, rec,
    vle_records, assessment_records,
    exit_reason, reported,
    \* history of the current batch and of the run
    pre_batch, sampled, batch_committed, committed_counts, completed, left_at

refTables == <<studentinfo, courses, vle, assessments>>
env == <<refTables, draws>>
factTables == <<studentvle, studentassessment>>
mainLocals == <<valid_keys, iteration, total_vle_records, total_assessment_records,
                vle_records, assessment_records>>
batchLocals == <<loop_i, records_inserted, records_updated, rec>>
history == <<pre_batch, sampled, batch_committed, committed_counts, completed>>
final == <<exit_reason, reported, left_at>>
vars == <<env, factTables, pc, open_conns, tx, fetched, mainLocals,
          batchLocals, history, final>>

Gens == DOMAIN pc

\* ------------------------------------------------------------ the database
\* A transaction's private writes: upd maps a stored row <<key, j>> to its new
\* value, ins maps a key to the rows inserted under it.
NoTx == [upd |-> EmptyFn, ins |-> EmptyFn]

\* The rows under key k as the transaction t sees them.
Rows(tbl, t, k) ==
    [j \in 1..Len(tbl[k]) |->
        IF <<k, j>> \in DOMAIN t.upd THEN t.upd[<<k, j>>] ELSE tbl[k][j]]
    \o (IF k \in DOMAIN t.ins THEN t.ins[k] ELSE <<>>)

\* Variant: the existence check does not see the rows its own transaction wrote.
SelectCountCommitted(tbl, t, k) == Len(tbl[k])

\* SELECT COUNT(*) ... WHERE key = k
SelectCount(tbl, t, k) == Len(Rows(tbl, t, k))

\* UPDATE ... SET ... WHERE key = k, where new[j] is the value the SET clause
\* gives row j of Rows(tbl, t, k).
Update(tbl, t, k, new) ==
    LET stored == Len(tbl[k])
        touched == {<<k, j>> : j \in 1..stored}
    IN  [upd |-> [r \in DOMAIN t.upd \cup touched |->
                    IF r \in touched THEN new[r[2]] ELSE t.upd[r]],
         ins |-> [q \in DOMAIN t.ins |->
                    IF q = k
                    THEN [j \in 1..Len(t.ins[k]) |-> new[stored + j]]
                    ELSE t.ins[q]]]

\* INSERT INTO ... VALUES (k, v)
Insert(t, k, v) ==
    [upd |-> t.upd,
     ins |-> [q \in DOMAIN t.ins \cup {k} |->
                IF q = k
                THEN Append(IF k \in DOMAIN t.ins THEN t.ins[k] ELSE <<>>, v)
                ELSE t.ins[q]]]

\* conn.commit(): the table once the transaction's writes are made durable.
Commit(tbl, t) == [k \in DOMAIN tbl |-> Rows(tbl, t, k)]

\* Variant: the connection is left open.
ConnCloseLeaks(n) == n

\* conn.close() of a `finally` clause: of the n connections the process holds,
\* one less stays open.
ConnClose(n) == n - 1

\* Variant: an UPDATE does not wait for the transaction that wrote the row.
LockedNever(g, k) == FALSE

\* A row of another open transaction is locked until that transaction ends.
Locked(g, k) ==
    \E h \in Gens \ {g} : \E r \in DOMAIN tx[h].upd : r[1] = k

\* ------------------------------------------------------------------ helpers
Put(f, g, v) == [f EXCEPT ![g] = v]

\* SELECT DISTINCT x FROM ... ORDER BY x LIMIT n: the n smallest values.
FirstN(S, n) == {x \in S : Cardinality({y \in S : y < x}) < n}

\* The return value of fetch_valid_foreign_keys is held as a sequence: <<>> for
\* None, <<d>> for the dict d.
NoKeys == <<>>

\* Variant: main never takes the `return` of its `if not valid_keys`.
FalsyNever(vk) == FALSE

\* Variant: a snapshot with an empty list counts as no snapshot.
FalsyOnEmptyList(vk) ==
    \/ Len(vk) = 0
    \/ {} \in {vk[1].students, vk[1].modules, vk[1].sites, vk[1].assessments}

\* Python's `not valid_keys` is true of None (and of an empty dict, which is
\* never returned: d always has its four entries).
Falsy(vk) == Len(vk) = 0

NoFetch == [students |-> {}, modules |-> {}, sites |-> {}, assessments |-> {}]

LoadingPcs == {"fetch_connect", "fetch_students", "fetch_modules", "fetch_sites",
               "fetch_assessments", "check_keys"}
VlePcs == {"vle_select", "vle_write", "vle_commit", "vle_except"}
AsmPcs == {"asm_select", "asm_write", "asm_commit", "asm_except"}
RunningPcs == {"loop_top", "vle_connect", "vle_return", "asm_connect", "asm_return",
               "sleep"} \cup VlePcs \cup AsmPcs

\* The lifecycle state of a generator at control point p.
PhaseOf(p) ==
    IF p \in LoadingPcs THEN "LOADING"
    ELSE IF p = "done" THEN "TERMINATED"
    ELSE "RUNNING"

Phase(g) == PhaseOf(pc[g])

\* ------------------------------------------------------------ initial state
EmptyVle == [k \in VleKeys |-> <<>>]
EmptyAsm == [k \in AsmKeys |-> <<>>]

\* Fact tables the run may start from: empty or with a row already stored.
InitialVle ==
    <<EmptyVle, [EmptyVle EXCEPT ![<<11, 501, "AAA", "2013J", 5>>] = <<3>>]>>
InitialAsm ==
    <<EmptyAsm,
      [EmptyAsm EXCEPT ![<<11, 1>>] =
         <<[date_submitted |-> 10, is_banked |-> 1, score |-> 550]>>]>>

\* The processes G before their first step.
InitProcs(G) ==
    /\ pc = [g \in G |-> "fetch_connect"]
    /\ open_conns = [g \in G |-> 0]
    /\ tx = [g \in G |-> NoTx]
    /\ fetched = [g \in G |-> NoFetch]
    /\ valid_keys = [g \in G |-> NoKeys]
    /\ iteration = [g \in G |-> 0]
    /\ total_vle_records = [g \in G |-> 0]
    /\ total_assessment_records = [g \in G |-> 0]
    /\ loop_i = [g \in G |-> 0]
    /\ records_inserted = [g \in G |-> 0]
    /\ records_updated = [g \in G |-> 0]
    /\ rec = [g \in G |-> None]
    /\ vle_records = [g \in G |-> 0]
    /\ assessment_records = [g \in G |-> 0]
    /\ exit_reason = [g \in G |-> None]
    /\ reported = [g \in G |-> None]
    /\ pre_batch = [g \in G |-> None]
    /\ sampled = [g \in G |-> EmptyFn]
    /\ batch_committed = [g \in G |-> FALSE]
    /\ committed_counts = [g \in G |-> [vle |-> 0, assessment |-> 0]]
    /\ completed = [g \in G |-> 0]
    /\ left_at = [g \in G |-> None]

\* The processes G before their first step, on a catalogue of one module
\* presentation, one site and one assessment.
InitGens(G) ==
    /\ courses = {<<"AAA", "2013J">>}
    /\ vle = {501}
    /\ assessments = {1}
    /\ InitProcs(G)

\* The one generator process of a run.
Solo == {1}

\* One process, two registered students, and fact tables that are both empty
\* or hold a row each.
Init ==
    /\ InitGens(Solo)
    /\ studentinfo = {11, 12}
    /\ draws \in DrawProfiles
    /\ \E i \in 1..2 : studentvle = InitialVle[i] /\ studentassessment = InitialAsm[i]

\* ------------------------------------------------- fetch_valid_foreign_keys
\* get_db_connection() for the snapshot: a connection, or None and `return None`.
FetchConnect(g) ==
    /\ pc[g] = "fetch_connect"
    /\ \E connected \in BOOLEAN :
         IF connected
         THEN /\ open_conns' = Put(open_conns, g, open_conns[g] + 1)
              /\ pc' = Put(pc, g, "fetch_students")
              /\ UNCHANGED left_at
         ELSE /\ pc' = Put(pc, g, "check_keys")
              /\ left_at' = Put(left_at, g, pc[g])
              /\ UNCHANGED open_conns
    /\ UNCHANGED <<env, factTables, tx, fetched, mainLocals, batchLocals,
                   history, exit_reason, reported>>

FetchStudents(g) ==
    /\ pc[g] = "fetch_students"
    /\ fetched' = Put(fetched, g,
                      [fetched[g] EXCEPT !.students = FirstN(studentinfo, StudentLimit)])
    /\ pc' = Put(pc, g, "fetch_modules")
    /\ UNCHANGED <<env, factTables, open_conns, tx, mainLocals, batchLocals,
                   history, final>>

FetchModules(g) ==
    /\ pc[g] = "fetch_modules"
    /\ fetched' = Put(fetched, g, [fetched[g] EXCEPT !.modules = courses])
    /\ pc' = Put(pc, g, "fetch_sites")
    /\ UNCHANGED <<env, factTables, open_conns, tx, mainLocals, batchLocals,
                   history, final>>

FetchSites(g) ==
    /\ pc[g] = "fetch_sites"
    /\ fetched' = Put(fetched, g, [fetched[g] EXCEPT !.sites = vle])
    /\ pc' = Put(pc, g, "fetch_assessments")
    /\ UNCHANGED <<env, factTables, open_conns, tx, mainLocals, batchLocals,
                   history, final>>

\* The value fetch_valid_foreign_keys returns once its four queries succeeded.
FetchResult(f) == <<f>>

\* The last query, `return {...}` and the `finally: conn.close()`.
FetchAssessments(g) ==
    /\ pc[g] = "fetch_assessments"
    /\ valid_keys' = Put(valid_keys, g,
                         FetchResult([fetched[g] EXCEPT !.assessments = assessments]))
    /\ fetched' = Put(fetched, g, NoFetch)
    /\ open_conns' = Put(open_conns, g, ConnClose(open_conns[g]))
    /\ pc' = Put(pc, g, "check_keys")
    /\ UNCHANGED <<env, factTables, tx, iteration, total_vle_records,
                   total_assessment_records, vle_records, assessment_records,
                   batchLocals, history, final>>

\* Variant: the except clause returns what was loaded before the error.
FetchErrorPartial(f) == <<f>>

\* The value fetch_valid_foreign_keys returns when a query raised.
FetchErrorResult(f) == NoKeys

\* A query of the snapshot load raises: `except Exception: return None`, then
\* the `finally: conn.close()`.
FetchError(g) ==
    /\ pc[g] \in {"fetch_students", "fetch_modules", "fetch_sites", "fetch_assessments"}
    /\ valid_keys' = Put(valid_keys, g, FetchErrorResult(fetched[g]))
    /\ open_conns' = Put(open_conns, g, ConnClose(open_conns[g]))
    /\ pc' = Put(pc, g, "check_keys")
    /\ left_at' = Put(left_at, g, pc[g])
    /\ UNCHANGED <<env, factTables, tx, fetched, iteration, total_vle_records,
                   total_assessment_records, vle_records, assessment_records,
                   batchLocals, history, exit_reason, reported>>

\* main: `if not valid_keys: return`, else the totals are set to 0 and the loop
\* is entered.
CheckKeys(g) ==
    /\ pc[g] = "check_keys"
    /\ IF Falsy(valid_keys[g])
       THEN /\ pc' = Put(pc, g, "done")
            /\ exit_reason' = Put(exit_reason, g, "load_failed")
            /\ UNCHANGED left_at
            /\ UNCHANGED <<iteration, total_vle_records, total_assessment_records>>
       ELSE /\ pc' = Put(pc, g, "loop_top")
            /\ iteration' = Put(iteration, g, 0)
            /\ total_vle_records' = Put(total_vle_records, g, 0)
            /\ total_assessment_records' = Put(total_assessment_records, g, 0)
            /\ UNCHANGED <<exit_reason, left_at>>
    /\ fetched' = Put(fetched, g, NoFetch)
    /\ UNCHANGED <<env, factTables, open_conns, tx, valid_keys,
                   vle_records, assessment_records, batchLocals, history, reported>>

\* -------------------------------------------------- insert_studentvle_data
\* Variant: a batch that got no connection reports its num_records as written.
NoConnectionResultFull(num_records) == num_records

\* `if not conn: return 0` (and `if not valid_keys: return 0`).
NoConnectionResult(num_records) == 0

\* `if not valid_keys: return 0`, then get_db_connection(): a connection and a
\* cursor, or None (the connect error is caught and printed there) and
\* `return 0`.
VleConnect(g) ==
    /\ pc[g] = "vle_connect"
    /\ \E connected \in BOOLEAN :
         IF ~Falsy(valid_keys[g]) /\ connected
         THEN /\ open_conns' = Put(open_conns, g, open_conns[g] + 1)
              /\ tx' = Put(tx, g, NoTx)
              /\ loop_i' = Put(loop_i, g, 0)
              /\ records_inserted' = Put(records_inserted, g, 0)
              /\ pc' = Put(pc, g, IF MaxBatchVle > 0 THEN "vle_select" ELSE "vle_commit")
              /\ UNCHANGED <<vle_records, left_at>>
         ELSE /\ vle_records' = Put(vle_records, g, NoConnectionResult(MaxBatchVle))
              /\ pc' = Put(pc, g, "vle_return")
              /\ left_at' = Put(left_at, g, pc[g])
              /\ UNCHANGED <<open_conns, tx, loop_i, records_inserted>>
    /\ pre_batch' = Put(pre_batch, g, studentvle)
    /\ sampled' = Put(sampled, g, EmptyFn)
    /\ batch_committed' = Put(batch_committed, g, FALSE)
    /\ UNCHANGED <<env, factTables, fetched, valid_keys, iteration,
                   total_vle_records, total_assessment_records, assessment_records,
                   records_updated, rec, committed_counts, completed,
                   exit_reason, reported>>

\* Variant: the student id is drawn from all ids, not from the snapshot.
VleSamplesInvented(vk) ==
    {<<s, t, m[1], m[2], d>> : s \in StudentUniverse, t \in vk.sites,
                               m \in vk.modules, d \in VleDates}

\* The keys an activity record can be sampled with.
VleSamples(vk) ==
    {<<s, t, m[1], m[2], d>> : s \in vk.students, t \in vk.sites,
                               m \in vk.modules, d \in VleDates}

\* The record sampled by the random.choice / randint draws, with the result of
\* the SELECT COUNT(*) for its key.
VleRecordOf(g, key, sum_click) ==
    [key |-> key, sum_click |-> sum_click,
     count |-> SelectCount(studentvle, tx[g], key)]

\* Variant: the UPDATE overwrites the click count with the increment.
VleStatementOverwrite(tbl, t, r) ==
    IF r.count > 0
    THEN Update(tbl, t, r.key,
                [j \in 1..Len(Rows(tbl, t, r.key)) |-> r.sum_click])
    ELSE Insert(t, r.key, r.sum_click)

\* Variant: the record is inserted whatever the count.
VleStatementInsertOnly(tbl, t, r) == Insert(t, r.key, r.sum_click)

\* `if count > 0: UPDATE ... SET sum_click = sum_click + %s` else `INSERT`.
VleStatement(tbl, t, r) ==
    IF r.count > 0
    THEN Update(tbl, t, r.key,
                [j \in 1..Len(Rows(tbl, t, r.key)) |->
                    Rows(tbl, t, r.key)[j] + r.sum_click])
    ELSE Insert(t, r.key, r.sum_click)

\* The UPDATE or INSERT of record r and `records_inserted += 1`.
VleExecute(g, r) ==
    /\ r.count > 0 => ~Locked(g, r.key)
    /\ tx' = Put(tx, g, VleStatement(studentvle, tx[g], r))
    /\ records_inserted' = Put(records_inserted, g, records_inserted[g] + 1)
    /\ loop_i' = Put(loop_i, g, loop_i[g] + 1)
    /\ sampled' = Put(sampled, g,
          [q \in DOMAIN sampled[g] \cup {r.key} |->
             IF q = r.key
             THEN (IF q \in DOMAIN sampled[g] THEN sampled[g][q] ELSE 0) + r.sum_click
             ELSE sampled[g][q]])
    /\ rec' = Put(rec, g, None)
    /\ pc' = Put(pc, g, IF loop_i[g] + 1 < MaxBatchVle THEN "vle_select" ELSE "vle_commit")
    /\ UNCHANGED <<env, factTables, open_conns, fetched, mainLocals,
                   records_updated, pre_batch, batch_committed, committed_counts,
                   completed, final>>

\* One pass of the for loop when no other process acts between its SELECT and
\* its UPDATE or INSERT: the draws, the SELECT COUNT(*) and the write.
VleRecord(g) ==
    /\ pc[g] = "vle_select"
    /\ \E key \in VleSamples(valid_keys[g][1]), sum_click \in draws.clicks :
         VleExecute(g, VleRecordOf(g, key, sum_click))

\* The first half of a pass: the draws and the SELECT COUNT(*).
VleSelect(g) ==
    /\ pc[g] = "vle_select"
    /\ \E key \in VleSamples(valid_keys[g][1]), sum_click \in draws.clicks :
         rec' = Put(rec, g, VleRecordOf(g, key, sum_click))
    /\ pc' = Put(pc, g, "vle_write")
    /\ UNCHANGED <<env, factTables, open_conns, tx, fetched, mainLocals,
                   loop_i, records_inserted, records_updated, history, final>>

\* The second half of a pass: the UPDATE or INSERT chosen by the count read.
VleWrite(g) ==
    /\ pc[g] = "vle_write"
    /\ VleExecute(g, rec[g])

\* conn.commit(), `return records_inserted`, and the `finally: conn.close()`.
VleCommit(g) ==
    /\ pc[g] = "vle_commit"
    /\ studentvle' = Commit(studentvle, tx[g])
    /\ tx' = Put(tx, g, NoTx)
    /\ vle_records' = Put(vle_records, g, records_inserted[g])
    /\ open_conns' = Put(open_conns, g, ConnClose(open_conns[g]))
    /\ batch_committed' = Put(batch_committed, g, TRUE)
    /\ committed_counts' = Put(committed_counts, g,
          [committed_counts[g] EXCEPT !.vle = @ + records_inserted[g]])
    /\ loop_i' = Put(loop_i, g, 0)
    /\ records_inserted' = Put(records_inserted, g, 0)
    /\ pc' = Put(pc, g, "vle_return")
    /\ UNCHANGED <<env, studentassessment, fetched, valid_keys, iteration,
                   total_vle_records, total_assessment_records, assessment_records,
                   records_updated, rec, pre_batch, sampled, completed, final>>

\* A statement of the try block raises an Exception (a query error, or
\* random.choice on an empty list): control passes to the except clause.
VleError(g) ==
    /\ pc[g] \in {"vle_select", "vle_write", "vle_commit"}
    /\ pc' = Put(pc, g, "vle_except")
    /\ rec' = Put(rec, g, None)
    /\ UNCHANGED <<env, factTables, open_conns, tx, fetched, mainLocals,
                   loop_i, records_inserted, records_updated, history, final>>

\* Variant: the except clause makes the writes done so far durable.
RollbackKeepsWrites(tbl, t) == Commit(tbl, t)

\* conn.rollback(): the table keeps what was committed before the transaction,
\* whose writes t are dropped.
Rollback(tbl, t) == tbl

\* Variant: the except clause returns the count reached before the error.
ExceptResultPartial(n) == n

\* What the except clause of a batch returns.
ExceptResult(n) == 0

\* `conn.rollback()`, `return 0`, and the `finally: conn.close()`.
VleRollback(g) ==
    /\ pc[g] = "vle_except"
    /\ studentvle' = Rollback(studentvle, tx[g])
    /\ tx' = Put(tx, g, NoTx)
    /\ vle_records' = Put(vle_records, g, ExceptResult(records_inserted[g]))
    /\ open_conns' = Put(open_conns, g, ConnClose(open_conns[g]))
    /\ loop_i' = Put(loop_i, g, 0)
    /\ records_inserted' = Put(records_inserted, g, 0)
    /\ pc' = Put(pc, g, "vle_return")
    /\ UNCHANGED <<env, studentassessment, fetched, valid_keys, iteration,
                   total_vle_records, total_assessment_records, assessment_records,
                   records_updated, rec, history, final>>

\* Variant: the try block is inside the while loop, so an error that reaches
\* main is printed and the loop goes on.
AfterMainExceptLoops == "loop_top"

\* Where main's `except Exception` leaves control: it prints the error and main
\* returns.
AfterMainExcept == "done"

\* conn.rollback() itself raises inside the except clause: the `finally` closes
\* the connection and the exception reaches main's `except Exception`, which
\* prints it and ends the run.
VleRollbackFails(g) ==
    /\ pc[g] = "vle_except"
    /\ tx' = Put(tx, g, NoTx)
    /\ open_conns' = Put(open_conns, g, ConnClose(open_conns[g]))
    /\ loop_i' = Put(loop_i, g, 0)
    /\ records_inserted' = Put(records_inserted, g, 0)
    /\ pc' = Put(pc, g, AfterMainExcept)
    /\ exit_reason' = Put(exit_reason, g, "error")
    /\ left_at' = Put(left_at, g, pc[g])
    /\ pre_batch' = Put(pre_batch, g, None)
    /\ sampled' = Put(sampled, g, EmptyFn)
    /\ batch_committed' = Put(batch_committed, g, FALSE)
    /\ UNCHANGED <<env, factTables, fetched, mainLocals, records_updated, rec,
                   committed_counts, completed, reported>>

\* Variant: a batch that returned 0 is attempted again before main goes on.
AfterBatchRetry(p, n) ==
    IF n = 0
    THEN (IF p = "vle_return" THEN "vle_connect" ELSE "asm_connect")
    ELSE (IF p = "vle_return" THEN "asm_connect" ELSE "sleep")

\* The statement main goes on with when the batch call at p has returned n:
\* the assessment batch after the activity batch, the print and the sleep
\* after the assessment batch, whatever n is.
AfterBatch(p, n) == IF p = "vle_return" THEN "asm_connect" ELSE "sleep"

\* Variant: `total = n`.
AccumulateOverwrite(total, n) == n

\* `total += n` of main.
Accumulate(total, n) == total + n

\* main: `total_vle_records += vle_records`.
VleReturn(g) ==
    /\ pc[g] = "vle_return"
    /\ total_vle_records' = Put(total_vle_records, g,
                                Accumulate(total_vle_records[g], vle_records[g]))
    /\ pre_batch' = Put(pre_batch, g, None)
    /\ sampled' = Put(sampled, g, EmptyFn)
    /\ batch_committed' = Put(batch_committed, g, FALSE)
    /\ left_at' = Put(left_at, g, None)
    /\ pc' = Put(pc, g, AfterBatch(pc[g], vle_records[g]))
    /\ UNCHANGED <<env, factTables, open_conns, tx, fetched, valid_keys, iteration,
                   total_assessment_records, vle_records, assessment_records,
                   batchLocals, committed_counts, completed, exit_reason, reported>>

\* -------------------------------------------- insert_studentassessment_data
AsmConnect(g) ==
    /\ pc[g] = "asm_connect"
    /\ \E connected \in BOOLEAN :
         IF ~Falsy(valid_keys[g]) /\ connected
         THEN /\ open_conns' = Put(open_conns, g, open_conns[g] + 1)
              /\ tx' = Put(tx, g, NoTx)
              /\ loop_i' = Put(loop_i, g, 0)
              /\ records_inserted' = Put(records_inserted, g, 0)
              /\ records_updated' = Put(records_updated, g, 0)
              /\ pc' = Put(pc, g, IF MaxBatchAsm > 0 THEN "asm_select" ELSE "asm_commit")
              /\ UNCHANGED <<assessment_records, left_at>>
         ELSE /\ assessment_records' =
                    Put(assessment_records, g, NoConnectionResult(MaxBatchAsm))
              /\ pc' = Put(pc, g, "asm_return")
              /\ left_at' = Put(left_at, g, pc[g])
              /\ UNCHANGED <<open_conns, tx, loop_i, records_inserted, records_updated>>
    /\ pre_batch' = Put(pre_batch, g, studentassessment)
    /\ sampled' = Put(sampled, g, EmptyFn)
    /\ batch_committed' = Put(batch_committed, g, FALSE)
    /\ UNCHANGED <<env, factTables, fetched, valid_keys, iteration,
                   total_vle_records, total_assessment_records, vle_records,
                   rec, committed_counts, completed, exit_reason, reported>>

\* The record sampled by the random draws, with the result of the
\* SELECT COUNT(*) for its key.
AsmRecordOf(g, key, sub, is_banked) ==
    [key |-> key, date_submitted |-> sub[1], is_banked |-> is_banked,
     score |-> sub[2], count |-> SelectCount(studentassessment, tx[g], key)]

\* Variant: the UPDATE averages the stored score with the sampled one.
AsmStatementAverage(tbl, t, r) ==
    IF r.count > 0
    THEN Update(tbl, t, r.key,
                [j \in 1..Len(Rows(tbl, t, r.key)) |->
                    [Rows(tbl, t, r.key)[j] EXCEPT
                        !.score = (@ + r.score) \div 2,
                        !.date_submitted = r.date_submitted]])
    ELSE Insert(t, r.key, [date_submitted |-> r.date_submitted,
                           is_banked |-> r.is_banked, score |-> r.score])

\* Variant: the UPDATE also stores the sampled is_banked.
AsmStatementSetsBanked(tbl, t, r) ==
    IF r.count > 0
    THEN Update(tbl, t, r.key,
                [j \in 1..Len(Rows(tbl, t, r.key)) |->
                    [date_submitted |-> r.date_submitted,
                     is_banked |-> r.is_banked, score |-> r.score]])
    ELSE Insert(t, r.key, [date_submitted |-> r.date_submitted,
                           is_banked |-> r.is_banked, score |-> r.score])

\* `if count > 0: UPDATE ... SET score = %s, date_submitted = %s` else `INSERT`.
AsmStatement(tbl, t, r) ==
    IF r.count > 0
    THEN Update(tbl, t, r.key,
                [j \in 1..Len(Rows(tbl, t, r.key)) |->
                    [Rows(tbl, t, r.key)[j] EXCEPT
                        !.score = r.score,
                        !.date_submitted = r.date_submitted]])
    ELSE Insert(t, r.key, [date_submitted |-> r.date_submitted,
                           is_banked |-> r.is_banked, score |-> r.score])

\* The UPDATE or INSERT of record r and the matching counter.
AsmExecute(g, r) ==
    /\ r.count > 0 => ~Locked(g, r.key)
    /\ tx' = Put(tx, g, AsmStatement(studentassessment, tx[g], r))
    /\ IF r.count > 0
       THEN /\ records_updated' = Put(records_updated, g, records_updated[g] + 1)
            /\ UNCHANGED records_inserted
       ELSE /\ records_inserted' = Put(records_inserted, g, records_inserted[g] + 1)
            /\ UNCHANGED records_updated
    /\ loop_i' = Put(loop_i, g, loop_i[g] + 1)
    /\ sampled' = Put(sampled, g,
          [q \in DOMAIN sampled[g] \cup {r.key} |->
             IF q = r.key
             THEN [date_submitted |-> r.date_submitted, score |-> r.score,
                   n |-> IF q \in DOMAIN sampled[g] THEN sampled[g][q].n + 1 ELSE 1]
             ELSE sampled[g][q]])
    /\ rec' = Put(rec, g, None)
    /\ pc' = Put(pc, g, IF loop_i[g] + 1 < MaxBatchAsm THEN "asm_select" ELSE "asm_commit")
    /\ UNCHANGED <<env, factTables, open_conns, fetched, mainLocals,
                   pre_batch, batch_committed, committed_counts, completed, final>>

\* Variant: the sample is drawn from the reference tables as they are now.
AsmSamplesLive(vk) == studentinfo \X assessments

\* The keys an assessment record can be sampled with.
AsmSamples(vk) == vk.students \X vk.assessments

\* One pass of the for loop when no other process acts between its SELECT and
\* its UPDATE or INSERT.
AsmRecord(g) ==
    /\ pc[g] = "asm_select"
    /\ \E key \in AsmSamples(valid_keys[g][1]), sub \in draws.submissions,
          is_banked \in draws.banked :
         AsmExecute(g, AsmRecordOf(g, key, sub, is_banked))

\* The first half of a pass: the draws and the SELECT COUNT(*).
AsmSelect(g) ==
    /\ pc[g] = "asm_select"
    /\ \E key \in AsmSamples(valid_keys[g][1]), sub \in draws.submissions,
          is_banked \in draws.banked :
         rec' = Put(rec, g, AsmRecordOf(g, key, sub, is_banked))
    /\ pc' = Put(pc, g, "asm_write")
    /\ UNCHANGED <<env, factTables, open_conns, tx, fetched, mainLocals,
                   loop_i, records_inserted, records_updated, history, final>>

\* The second half of a pass: the UPDATE or INSERT chosen by the count read.
AsmWrite(g) ==
    /\ pc[g] = "asm_write"
    /\ AsmExecute(g, rec[g])

\* conn.commit(), `return records_inserted + records_updated`, and the
\* `finally: conn.close()`.
AsmCommit(g) ==
    /\ pc[g] = "asm_commit"
    /\ studentassessment' = Commit(studentassessment, tx[g])
    /\ tx' = Put(tx, g, NoTx)
    /\ assessment_records' = Put(assessment_records, g,
                                 records_inserted[g] + records_updated[g])
    /\ open_conns' = Put(open_conns, g, ConnClose(open_conns[g]))
    /\ batch_committed' = Put(batch_committed, g, TRUE)
    /\ committed_counts' = Put(committed_counts, g,
          [committed_counts[g] EXCEPT
             !.assessment = @ + records_inserted[g] + records_updated[g]])
    /\ loop_i' = Put(loop_i, g, 0)
    /\ records_inserted' = Put(records_inserted, g, 0)
    /\ records_updated' = Put(records_updated, g, 0)
    /\ pc' = Put(pc, g, "asm_return")
    /\ UNCHANGED <<env, studentvle, fetched, valid_keys, iteration,
                   total_vle_records, total_assessment_records, vle_records,
                   rec, pre_batch, sampled, completed, final>>

AsmError(g) ==
    /\ pc[g] \in {"asm_select", "asm_write", "asm_commit"}
    /\ pc' = Put(pc, g, "asm_except")
    /\ rec' = Put(rec, g, None)
    /\ UNCHANGED <<env, factTables, open_conns, tx, fetched, mainLocals,
                   loop_i, records_inserted, records_updated, history, final>>

\* `conn.rollback()`, `return 0`, and the `finally: conn.close()`.
AsmRollback(g) ==
    /\ pc[g] = "asm_except"
    /\ studentassessment' = Rollback(studentassessment, tx[g])
    /\ tx' = Put(tx, g, NoTx)
    /\ assessment_records' = Put(assessment_records, g,
          ExceptResult(records_inserted[g] + records_updated[g]))
    /\ open_conns' = Put(open_conns, g, ConnClose(open_conns[g]))
    /\ loop_i' = Put(loop_i, g, 0)
    /\ records_inserted' = Put(records_inserted, g, 0)
    /\ records_updated' = Put(records_updated, g, 0)
    /\ pc' = Put(pc, g, "asm_return")
    /\ UNCHANGED <<env, studentvle, fetched, valid_keys, iteration,
                   total_vle_records, total_assessment_records, vle_records,
                   rec, history, final>>

AsmRollbackFails(g) ==
    /\ pc[g] = "asm_except"
    /\ tx' = Put(tx, g, NoTx)
    /\ open_conns' = Put(open_conns, g, ConnClose(open_conns[g]))
    /\ loop_i' = Put(loop_i, g, 0)
    /\ records_inserted' = Put(records_inserted, g, 0)
    /\ records_updated' = Put(records_updated, g, 0)
    /\ pc' = Put(pc, g, AfterMainExcept)
    /\ exit_reason' = Put(exit_reason, g, "error")
    /\ left_at' = Put(left_at, g, pc[g])
    /\ pre_batch' = Put(pre_batch, g, None)
    /\ sampled' = Put(sampled, g, EmptyFn)
    /\ batch_committed' = Put(batch_committed, g, FALSE)
    /\ UNCHANGED <<env, factTables, fetched, mainLocals, rec,
                   committed_counts, completed, reported>>

\* main: `total_assessment_records += assessment_records`.
AsmReturn(g) ==
    /\ pc[g] = "asm_return"
    /\ total_assessment_records' =
          Put(total_assessment_records, g,
              Accumulate(total_assessment_records[g], assessment_records[g]))
    /\ pre_batch' = Put(pre_batch, g, None)
    /\ sampled' = Put(sampled, g, EmptyFn)
    /\ batch_committed' = Put(batch_committed, g, FALSE)
    /\ completed' = Put(completed, g, completed[g] + 1)
    /\ left_at' = Put(left_at, g, None)
    /\ pc' = Put(pc, g, AfterBatch(pc[g], assessment_records[g]))
    /\ UNCHANGED <<env, factTables, open_conns, tx, fetched, valid_keys, iteration,
                   total_vle_records, vle_records, assessment_records,
                   batchLocals, committed_counts, exit_reason, reported>>

\* --------------------------------------------------------------------- main
\* `while True: iteration += 1`.
LoopTop(g) ==
    /\ pc[g] = "loop_top"
    /\ iteration[g] < MaxIter
    /\ iteration' = Put(iteration, g, iteration[g] + 1)
    /\ pc' = Put(pc, g, "vle_connect")
    /\ UNCHANGED <<env, factTables, open_conns, tx, fetched, valid_keys,
                   total_vle_records, total_assessment_records, vle_records,
                   assessment_records, batchLocals, history, final>>

\* Variant: the loop is left when the sleep returns.
AfterSleepReturns == "done"

\* Where control goes when time.sleep returns: `while True` has no exit
\* condition, so back to the top of the loop.
AfterSleep == "loop_top"

\* The running totals are printed and `time.sleep(INSERT_INTERVAL)` returns.
Sleep(g) ==
    /\ pc[g] = "sleep"
    /\ pc' = Put(pc, g, AfterSleep)
    /\ UNCHANGED <<env, factTables, open_conns, tx, fetched, mainLocals,
                   batchLocals, history, final>>

\* Variant: closing the connection makes the pending writes durable.
CloseCommits(tbl, t) == Commit(tbl, t)

\* conn.close() on a connection whose transaction was not committed: the
\* server drops the transaction's writes t, the table stays as committed.
Close(tbl, t) == tbl

\* Variant: the report counts the records the batch in flight has written.
FinalReportCountsBatch(g) ==
    [vle |-> total_vle_records[g]
               + (IF pc[g] \in VlePcs THEN records_inserted[g] ELSE 0),
     assessment |-> total_assessment_records[g]
               + (IF pc[g] \in AsmPcs
                  THEN records_inserted[g] + records_updated[g] ELSE 0),
     iteration |-> iteration[g]]

\* What `except KeyboardInterrupt` prints.
FinalReport(g) ==
    [vle |-> total_vle_records[g], assessment |-> total_assessment_records[g],
     iteration |-> iteration[g]]

\* The interrupt signal: Python raises KeyboardInterrupt in the main thread at
\* the statement being executed. It is no Exception, so no `except Exception`
\* clause handles it; every `finally: conn.close()` on the way runs, which drops
\* the open transaction. Inside main's try block `except KeyboardInterrupt`
\* prints the totals; before it (the snapshot load) the process dies with it.
Interrupt(g) ==
    /\ pc[g] # "done"
    /\ IF Phase(g) = "LOADING"
       THEN /\ exit_reason' = Put(exit_reason, g, "crash")
            /\ UNCHANGED reported
       ELSE /\ exit_reason' = Put(exit_reason, g, "interrupted")
            /\ reported' = Put(reported, g, FinalReport(g))
    /\ left_at' = Put(left_at, g, pc[g])
    /\ open_conns' = Put(open_conns, g, IF open_conns[g] > 0 THEN ConnClose(open_conns[g]) ELSE 0)
    /\ tx' = Put(tx, g, NoTx)
    /\ fetched' = Put(fetched, g, NoFetch)
    /\ loop_i' = Put(loop_i, g, 0)
    /\ records_inserted' = Put(records_inserted, g, 0)
    /\ records_updated' = Put(records_updated, g, 0)
    /\ rec' = Put(rec, g, None)
    /\ sampled' = Put(sampled, g, EmptyFn)
    /\ pre_batch' = Put(pre_batch, g, None)
    /\ batch_committed' = Put(batch_committed, g, FALSE)
    /\ studentvle' = IF pc[g] \in VlePcs THEN Close(studentvle, tx[g]) ELSE studentvle
    /\ studentassessment' =
          IF pc[g] \in AsmPcs THEN Close(studentassessment, tx[g]) ELSE studentassessment
    /\ pc' = Put(pc, g, "done")
    /\ UNCHANGED <<env, mainLocals, committed_counts, completed>>

Next ==
    \E g \in Solo :
        \/ FetchConnect(g) \/ FetchStudents(g) \/ FetchModules(g) \/ FetchSites(g)
        \/ FetchAssessments(g) \/ FetchError(g) \/ CheckKeys(g)
        \/ LoopTop(g) \/ Sleep(g) \/ Interrupt(g)
        \/ VleConnect(g) \/ VleRecord(g) \/ VleCommit(g) \/ VleError(g)
        \/ VleRollback(g) \/ VleRollbackFails(g) \/ VleReturn(g)
        \/ AsmConnect(g) \/ AsmRecord(g) \/ AsmCommit(g) \/ AsmError(g)
        \/ AsmRollback(g) \/ AsmRollbackFails(g) \/ AsmReturn(g)

\* One generator process against the database.
Spec == Init /\ [][Next]_vars

\* A run that starts with fact tables that hold no row yet.
InitEmpty == Init /\ studentvle = EmptyVle /\ studentassessment = EmptyAsm

\* The steps generator g takes by itself: every step but the interrupt, which
\* comes from outside.
Runs(g) ==
    \/ FetchConnect(g) \/ FetchStudents(g) \/ FetchModules(g) \/ FetchSites(g)
    \/ FetchAssessments(g) \/ FetchError(g) \/ CheckKeys(g)
    \/ LoopTop(g) \/ Sleep(g)
    \/ VleConnect(g) \/ VleRecord(g) \/ VleCommit(g) \/ VleError(g)
    \/ VleRollback(g) \/ VleRollbackFails(g) \/ VleReturn(g)
    \/ AsmConnect(g) \/ AsmRecord(g) \/ AsmCommit(g) \/ AsmError(g)
    \/ AsmRollback(g) \/ AsmRollbackFails(g) \/ AsmReturn(g)

\* A run that starts on empty fact tables and draws the banked flag 0.
InitFair == InitEmpty /\ draws.banked = {0}

\* One generator process that is never stopped for good by its scheduler and
\* whose statements all return (a database call or the sleep returns or
\* raises); nothing is assumed about the interrupt.
SpecFair == InitFair /\ [][Next]_vars /\ \A g \in Solo : WF_vars(Runs(g))

\* The reference tables of a database in which one of the four catalogues the
\* snapshot reads is empty: no student, no module presentation, no site, or no
\* assessment.
EmptyCatalogues ==
    {[studentinfo |-> {}, courses |-> {<<"AAA", "2013J">>}, vle |-> {501},
      assessments |-> {1}],
     [studentinfo |-> {11}, courses |-> {}, vle |-> {501}, assessments |-> {1}],
     [studentinfo |-> {11}, courses |-> {<<"AAA", "2013J">>}, vle |-> {},
      assessments |-> {1}],
     [studentinfo |-> {11}, courses |-> {<<"AAA", "2013J">>}, vle |-> {501},
      assessments |-> {}]}

\* One process started against a database with an empty catalogue and fact
\* tables that are both empty or hold a row each.
InitEmptyCatalogue ==
    /\ InitProcs(Solo)
    /\ \E c \in EmptyCatalogues :
          /\ studentinfo = c.studentinfo
          /\ courses = c.courses
          /\ vle = c.vle
          /\ assessments = c.assessments
    /\ draws \in DrawProfiles /\ draws.banked = {0}
    /\ \E i \in 1..2 : studentvle = InitialVle[i] /\ studentassessment = InitialAsm[i]

\* The generator of SpecFair on a database with an empty catalogue.
SpecEmptyCatalogue ==
    InitEmptyCatalogue /\ [][Next]_vars /\ \A g \in Solo : WF_vars(Runs(g))

\* ------------------------------------------------------------ other actors
\* What another client of the database does to the reference tables once a
\* generator has loaded its snapshot: it registers a student, opens a site and
\* an assessment, or it removes a student. (A change committed before the end
\* of the load is part of what the load reads.)
ReferenceChanges ==
    {[studentinfo |-> studentinfo \cup {13}, vle |-> vle \cup {502},
      assessments |-> assessments \cup {2}],
     [studentinfo |-> studentinfo \ {12}, vle |-> vle, assessments |-> assessments]}

\* One committed change of another client; a run sees one such change.
OtherActorChanges ==
    /\ studentinfo = {11, 12} /\ vle = {501} /\ assessments = {1}
    /\ \E g \in Gens : Phase(g) = "RUNNING"
    /\ \E c \in ReferenceChanges :
          /\ studentinfo' = c.studentinfo
          /\ vle' = c.vle
          /\ assessments' = c.assessments
    /\ UNCHANGED <<courses, draws, factTables, pc, open_conns, tx, fetched,
                   mainLocals, batchLocals, history, final>>

NextWithOthers == Next \/ OtherActorChanges

\* One generator process and the other clients of the database.
SpecWithOthers == InitEmpty /\ [][NextWithOthers]_vars

\* ----------------------------------------------------------- two generators
\* Two generator processes started against the same database.
Pair == {1, 2}

\* What the random source yields in a run of two processes: one click
\* increment, two submissions, the banked flag 0.
PairDraws == [clicks |-> {ClickLo}, submissions |-> Submissions, banked |-> {0}]

\* Two processes and one registered student, so that every record of either
\* process has the same key; each fact table is empty or holds the row of
\* that key.
InitTwo ==
    /\ InitGens(Pair)
    /\ studentinfo = {11}
    /\ draws = PairDraws
    /\ \E i, j \in 1..2 : studentvle = InitialVle[i] /\ studentassessment = InitialAsm[j]

\* `while True: iteration += 1`, the model stopping after MaxIter iterations of
\* the two processes together.
LoopTopTwo(g) ==
    /\ iteration[1] + iteration[2] < MaxIter
    /\ LoopTop(g)

\* The steps of the two processes interleave statement by statement: between
\* the SELECT COUNT(*) of a record and its UPDATE or INSERT the other process
\* may act. (The runs are not interrupted and no rollback raises.)
NextTwo ==
    \E g \in Pair :
        \/ FetchConnect(g) \/ FetchStudents(g) \/ FetchModules(g) \/ FetchSites(g)
        \/ FetchAssessments(g) \/ FetchError(g) \/ CheckKeys(g)
        \/ LoopTopTwo(g) \/ Sleep(g)
        \/ VleConnect(g) \/ VleSelect(g) \/ VleWrite(g) \/ VleCommit(g)
        \/ VleError(g) \/ VleRollback(g) \/ VleReturn(g)
        \/ AsmConnect(g) \/ AsmSelect(g) \/ AsmWrite(g) \/ AsmCommit(g)
        \/ AsmError(g) \/ AsmRollback(g) \/ AsmReturn(g)

SpecTwo == InitTwo /\ [][NextTwo]_vars

\* ================================================================== claims
\* The keys a transaction has written to.
WrittenKeys(t) == DOMAIN t.ins \cup {r[1] : r \in DOMAIN t.upd}

\* C1: when an activity batch has committed, every key sampled in it holds
\* exactly one row whose sum_click is the pre-batch value (0 when the key was
\* absent) plus the sum of the increments sampled for that key in the batch.
Thm_C1_ClickAccumulation ==
    \A g \in Gens :
        (pc[g] = "vle_return" /\ batch_committed[g]) =>
            \A k \in DOMAIN sampled[g] :
                /\ Len(pre_batch[g][k]) = 1 =>
                      studentvle[k] = <<pre_batch[g][k][1] + sampled[g][k]>>
                /\ Len(pre_batch[g][k]) = 0 => studentvle[k] = <<sampled[g][k]>>

\* A committed activity batch that sampled a key present before it twice, with
\* the increments 1 and 2.
Wit_C1_PresentKeySampledTwice ==
    /\ pc[1] = "vle_return" /\ batch_committed[1]
    /\ \E k \in DOMAIN sampled[1] :
          /\ Len(pre_batch[1][k]) = 1
          /\ sampled[1][k] = 3
          /\ studentvle[k] = <<pre_batch[1][k][1] + 3>>

\* C2: when an assessment batch has committed, every key that was present
\* before it and sampled in it holds one row whose score and date_submitted
\* are those of the last sample of the key in the batch.
Thm_C2_LastWriteWins ==
    \A g \in Gens :
        (pc[g] = "asm_return" /\ batch_committed[g]) =>
            \A k \in DOMAIN sampled[g] :
                Len(pre_batch[g][k]) = 1 =>
                    /\ Len(studentassessment[k]) = 1
                    /\ studentassessment[k][1].score = sampled[g][k].score
                    /\ studentassessment[k][1].date_submitted =
                          sampled[g][k].date_submitted

\* A committed assessment batch that sampled a present key twice and left it
\* with a score and a day other than the stored ones.
Wit_C2_PresentKeyOverwritten ==
    /\ pc[1] = "asm_return" /\ batch_committed[1]
    /\ \E k \in DOMAIN sampled[1] :
          /\ Len(pre_batch[1][k]) = 1
          /\ sampled[1][k].n = 2
          /\ pre_batch[1][k][1].score = 550
          /\ studentassessment[k][1].score = 700
          /\ studentassessment[k][1].date_submitted = 20

\* C3: each fact table holds at most one row per composite key, both as
\* committed and as seen by the transaction of a batch in flight.
Thm_C3_UniqueKeys ==
    /\ \A k \in VleKeys : Len(studentvle[k]) <= 1
    /\ \A k \in AsmKeys : Len(studentassessment[k]) <= 1
    /\ \A g \in Gens :
          /\ pc[g] \in VlePcs =>
                \A k \in VleKeys : Len(Rows(studentvle, tx[g], k)) <= 1
          /\ pc[g] \in AsmPcs =>
                \A k \in AsmKeys : Len(Rows(studentassessment, tx[g], k)) <= 1

\* A batch in flight that inserted a key and then sampled it again: the row it
\* inserted carries both increments.
Wit_C3_InsertedThenUpdated ==
    /\ pc[1] \in VlePcs
    /\ \E k \in DOMAIN tx[1].ins :
          /\ tx[1].ins[k] = <<3>>
          /\ Len(studentvle[k]) = 0

\* C4: a batch that did not commit returns 0 and leaves its fact table as it
\* was before the batch; a batch that returns a count other than 0 committed.
Thm_C4_AllOrNothing ==
    \A g \in Gens :
        /\ pc[g] = "vle_return" =>
              /\ ~batch_committed[g] =>
                    vle_records[g] = 0 /\ studentvle = pre_batch[g]
              /\ vle_records[g] # 0 => batch_committed[g]
        /\ pc[g] = "asm_return" =>
              /\ ~batch_committed[g] =>
                    assessment_records[g] = 0 /\ studentassessment = pre_batch[g]
              /\ assessment_records[g] # 0 => batch_committed[g]

\* An assessment batch that wrote a record, failed and was rolled back.
Wit_C4_RolledBackAfterWrites ==
    /\ pc[1] = "asm_return" /\ ~batch_committed[1]
    /\ DOMAIN sampled[1] # {}
    /\ assessment_records[1] = 0
    /\ studentassessment = pre_batch[1]

\* C5: every key a batch writes is made of a student, a site, a module and
\* presentation pair, or an assessment of the snapshot loaded at startup.
Thm_C5_KeysFromSnapshot ==
    \A g \in Gens :
        /\ pc[g] \in VlePcs =>
              \A k \in WrittenKeys(tx[g]) :
                  /\ k[1] \in valid_keys[g][1].students
                  /\ k[2] \in valid_keys[g][1].sites
                  /\ <<k[3], k[4]>> \in valid_keys[g][1].modules
        /\ pc[g] \in AsmPcs =>
              \A k \in WrittenKeys(tx[g]) :
                  /\ k[1] \in valid_keys[g][1].students
                  /\ k[2] \in valid_keys[g][1].assessments

\* An activity batch in flight that has inserted one key and updated another.
Wit_C5_InsertAndUpdate ==
    /\ pc[1] \in VlePcs
    /\ DOMAIN tx[1].ins # {}
    /\ DOMAIN tx[1].upd # {}

\* The step in which `except KeyboardInterrupt` of generator g takes over.
Interrupted(g) == exit_reason[g] = None /\ exit_reason'[g] = "interrupted"

\* A step of generator g that neither stutters nor ends the run.
Goes(g) == pc'[g] # pc[g] /\ exit_reason'[g] = None

\* C6 as stated: the loop is never left from the middle of a batch.
Orig_C6_InterruptOnlyAtBoundary ==
    \A g \in Gens :
        exit_reason[g] = "interrupted" => left_at[g] \notin VlePcs \cup AsmPcs

\* C6 as amended: the interrupt is honoured at the statement where it arrives;
\* when a batch is in flight its connection is closed, its writes are dropped
\* so that its fact table is as it was before the batch, and the loop is left
\* from there with the totals reported.
Thm_C6_InterruptAbandonsBatch ==
    [][\A g \in Gens :
        Interrupted(g) =>
            /\ pc'[g] = "done" /\ left_at'[g] = pc[g]
            /\ open_conns'[g] = 0 /\ tx'[g] = NoTx
            /\ pc[g] \in VlePcs => studentvle' = pre_batch[g]
            /\ pc[g] \in AsmPcs => studentassessment' = pre_batch[g]
            /\ pc[g] \notin VlePcs => studentvle' = studentvle
            /\ pc[g] \notin AsmPcs => studentassessment' = studentassessment
            /\ reported'[g] = FinalReport(g)]_vars

\* A run interrupted when every record of its assessment batch was written and
\* the commit was still to come.
Wit_C6_InterruptedBeforeCommit ==
    /\ exit_reason[1] = "interrupted"
    /\ left_at[1] = "asm_commit"
    /\ reported[1].iteration = 1

\* C7: a run interrupted during the sleep reports the number of iterations
\* completed and, per table, the sum of the counts of its committed batches.
Thm_C7_ReportAtSleep ==
    \A g \in Gens :
        (exit_reason[g] = "interrupted" /\ left_at[g] = "sleep") =>
            reported[g] = [vle |-> committed_counts[g].vle,
                           assessment |-> committed_counts[g].assessment,
                           iteration |-> completed[g]]

\* A run interrupted in the sleep of its second iteration, one of whose two
\* activity batches did not commit.
Wit_C7_TwoIterationsOneFailed ==
    /\ exit_reason[1] = "interrupted" /\ left_at[1] = "sleep"
    /\ reported[1].iteration = 2
    /\ reported[1].vle = MaxBatchVle
    /\ reported[1].assessment = 2 * MaxBatchAsm

\* C8: after a batch that was rolled back the run goes on as after any batch:
\* the activity batch is followed by the assessment batch of the same
\* iteration, that by the sleep and the next iteration, and the batch leaves
\* the running totals as they were.
Thm_C8_FailedBatchContinues ==
    [][\A g \in Gens :
        /\ (pc[g] = "vle_except" /\ Goes(g)) => pc'[g] = "vle_return"
        /\ (pc[g] = "vle_return" /\ ~batch_committed[g] /\ Goes(g)) =>
              /\ pc'[g] = "asm_connect"
              /\ iteration'[g] = iteration[g]
              /\ total_vle_records'[g] = total_vle_records[g]
              /\ total_assessment_records'[g] = total_assessment_records[g]
        /\ (pc[g] = "asm_except" /\ Goes(g)) => pc'[g] = "asm_return"
        /\ (pc[g] = "asm_return" /\ ~batch_committed[g] /\ Goes(g)) =>
              /\ pc'[g] = "sleep"
              /\ total_vle_records'[g] = total_vle_records[g]
              /\ total_assessment_records'[g] = total_assessment_records[g]
        /\ (pc[g] = "sleep" /\ Goes(g)) => pc'[g] = "loop_top"
        /\ (pc[g] = "loop_top" /\ Goes(g)) =>
              pc'[g] = "vle_connect" /\ iteration'[g] = iteration[g] + 1]_vars

\* The activity batch of the first iteration wrote a record and was rolled
\* back; the assessment batch and a further iteration are still to come.
Wit_C8_RolledBackActivityBatch ==
    /\ pc[1] = "vle_return" /\ ~batch_committed[1]
    /\ DOMAIN sampled[1] # {}
    /\ iteration[1] = 1 /\ iteration[1] < MaxIter

\* C9: a generator holds either no snapshot or the whole of it; without a
\* snapshot it never runs the loop, executes no batch and writes no row, and a
\* failed load ends the run without a snapshot.
Thm_C9_StartupAllOrNothing ==
    \A g \in Gens :
        /\ valid_keys[g] # NoKeys =>
              valid_keys[g] = <<[students |-> FirstN(studentinfo, StudentLimit),
                                 modules |-> courses, sites |-> vle,
                                 assessments |-> assessments]>>
        /\ valid_keys[g] = NoKeys =>
              /\ Phase(g) # "RUNNING"
              /\ iteration[g] = 0 /\ completed[g] = 0
              /\ tx[g] = NoTx
              /\ committed_counts[g] = [vle |-> 0, assessment |-> 0]
              /\ Gens = {g} =>
                    \E i \in 1..2 : /\ studentvle = InitialVle[i]
                                    /\ studentassessment = InitialAsm[i]
        /\ exit_reason[g] = "load_failed" => valid_keys[g] = NoKeys

\* A run ended because the third query of the load failed, after the students
\* and the modules had been fetched.
Wit_C9_ThirdFetchFailed ==
    /\ pc[1] = "done" /\ exit_reason[1] = "load_failed"
    /\ left_at[1] = "fetch_sites"

\* C10: the lifecycle moves only LOADING -> RUNNING (with a snapshot),
\* LOADING -> TERMINATED and RUNNING -> TERMINATED; TERMINATED is never left;
\* outside RUNNING a generator has no transaction and starts no iteration, and
\* the fact tables change only while a generator is RUNNING.
Thm_C10_Lifecycle ==
    [][\A g \in Gens :
        LET a == Phase(g)
            b == PhaseOf(pc'[g])
        IN  /\ <<a, b>> \in {<<"LOADING", "LOADING">>, <<"LOADING", "RUNNING">>,
                             <<"LOADING", "TERMINATED">>, <<"RUNNING", "RUNNING">>,
                             <<"RUNNING", "TERMINATED">>,
                             <<"TERMINATED", "TERMINATED">>}
            /\ (a = "LOADING" /\ b = "RUNNING") => valid_keys'[g] # NoKeys
            /\ (a = "LOADING" /\ b = "TERMINATED") =>
                  exit_reason'[g] \in {"load_failed", "crash"}
            /\ (a = "RUNNING" /\ b = "TERMINATED") =>
                  exit_reason'[g] \in {"interrupted", "error"}
            /\ a = "TERMINATED" =>
                  /\ exit_reason'[g] = exit_reason[g]
                  /\ iteration'[g] = iteration[g]
                  /\ open_conns'[g] = 0
            /\ a # "RUNNING" =>
                  /\ tx[g] = NoTx /\ tx'[g] = NoTx
                  /\ iteration'[g] = iteration[g]
                  /\ completed'[g] = completed[g]
            /\ (studentvle' # studentvle \/ studentassessment' # studentassessment) =>
                  \E h \in Gens : Phase(h) = "RUNNING"]_vars

\* A run that reached its second iteration and was ended by an error that
\* escaped a batch.
Wit_C10_EndedByError ==
    /\ pc[1] = "done" /\ exit_reason[1] = "error"
    /\ iteration[1] = 2

\* C14: a batch of the loop that gets no connection is skipped: it opens no
\* transaction and issues no statement, returns 0 and leaves both fact tables,
\* the running totals and the iteration count as they were; the run then goes
\* on with the assessment batch (after the activity batch) or with the sleep
\* (after the assessment batch), the totals still unchanged.
Thm_C14_NoConnectionSkipsBatch ==
    [][\A g \in Gens :
        /\ (pc[g] = "vle_connect" /\ left_at'[g] = pc[g] /\ Goes(g)) =>
              /\ pc'[g] = "vle_return" /\ vle_records'[g] = 0
              /\ open_conns'[g] = 0 /\ tx'[g] = NoTx
              /\ UNCHANGED <<factTables, total_vle_records,
                             total_assessment_records, iteration>>
        /\ (pc[g] = "asm_connect" /\ left_at'[g] = pc[g] /\ Goes(g)) =>
              /\ pc'[g] = "asm_return" /\ assessment_records'[g] = 0
              /\ open_conns'[g] = 0 /\ tx'[g] = NoTx
              /\ UNCHANGED <<factTables, total_vle_records,
                             total_assessment_records, iteration>>
        /\ (pc[g] = "vle_return" /\ left_at[g] = "vle_connect" /\ Goes(g)) =>
              /\ pc'[g] = "asm_connect"
              /\ UNCHANGED <<factTables, total_vle_records,
                             total_assessment_records, iteration>>
        /\ (pc[g] = "asm_return" /\ left_at[g] = "asm_connect" /\ Goes(g)) =>
              /\ pc'[g] = "sleep"
              /\ UNCHANGED <<factTables, total_vle_records,
                             total_assessment_records, iteration>>]_vars

\* The assessment batch of the second iteration got no connection, after an
\* activity batch of that run had committed: the totals hold what was
\* committed and the sleep is still to come.
Wit_C14_AssessmentBatchSkipped ==
    /\ pc[1] = "asm_return" /\ left_at[1] = "asm_connect"
    /\ iteration[1] = 2
    /\ assessment_records[1] = 0
    /\ total_vle_records[1] > 0
    /\ studentassessment = pre_batch[1]

\* The step in which an error that escaped a batch reaches main.
Escaped(g) == exit_reason[g] = None /\ exit_reason'[g] = "error"

\* C15: an error that escapes a batch ends the run: the step in which it
\* reaches main leaves the generator terminated, its connection closed and the
\* batch's writes dropped; from then on the generator starts no batch and no
\* iteration, changes no table and no total.
Thm_C15_EscapedErrorTerminates ==
    [][\A g \in Gens :
        /\ Escaped(g) =>
              /\ pc[g] \in {"vle_except", "asm_except"}
              /\ PhaseOf(pc'[g]) = "TERMINATED"
              /\ open_conns'[g] = 0 /\ tx'[g] = NoTx
              /\ UNCHANGED <<factTables, iteration, total_vle_records,
                             total_assessment_records, completed>>
        /\ exit_reason[g] = "error" =>
              /\ Phase(g) = "TERMINATED"
              /\ pc'[g] = pc[g] /\ tx'[g] = NoTx /\ open_conns'[g] = 0
              /\ exit_reason'[g] = "error"
              /\ UNCHANGED <<iteration, total_vle_records,
                             total_assessment_records, completed, committed_counts>>
              /\ Gens = {g} => UNCHANGED factTables]_vars

\* The rollback of the assessment batch of the first iteration raised, after
\* the activity batch of that iteration had committed; a further iteration
\* was still allowed.
Wit_C15_RollbackRaisedInFirstIteration ==
    /\ exit_reason[1] = "error" /\ left_at[1] = "asm_except"
    /\ iteration[1] = 1 /\ iteration[1] < MaxIter
    /\ total_vle_records[1] = MaxBatchVle
    /\ pc[1] = "done"

\* C17: control moves through an iteration in one order only. The activity
\* batch is entered only from the top of the loop, in the step that counts the
\* iteration, and the iteration count changes in no other step; the
\* assessment batch is entered only from the return of the activity batch,
\* the sleep only from the return of the assessment batch, the top of the
\* loop only from the sleep (or from startup). Inside a batch control never
\* goes back to its connect, and an except clause leads only to the return.
\* When the return of a batch is reached, and so when the assessment batch
\* starts, the generator has no open transaction and no open connection.
Thm_C17_IterationOrder ==
    [][\A g \in Gens :
        /\ pc'[g] # pc[g] =>
              /\ pc'[g] = "vle_connect" =>
                    pc[g] = "loop_top" /\ iteration'[g] = iteration[g] + 1
              /\ pc'[g] \in VlePcs => pc[g] \in VlePcs \cup {"vle_connect"}
              /\ pc'[g] = "vle_return" =>
                    /\ pc[g] \in {"vle_connect", "vle_commit", "vle_except"}
                    /\ tx'[g] = NoTx /\ open_conns'[g] = 0
              /\ pc'[g] = "asm_connect" =>
                    /\ pc[g] = "vle_return"
                    /\ tx[g] = NoTx /\ open_conns[g] = 0
                    /\ tx'[g] = NoTx /\ open_conns'[g] = 0
              /\ pc'[g] \in AsmPcs => pc[g] \in AsmPcs \cup {"asm_connect"}
              /\ pc'[g] = "asm_return" =>
                    /\ pc[g] \in {"asm_connect", "asm_commit", "asm_except"}
                    /\ tx'[g] = NoTx /\ open_conns'[g] = 0
              /\ pc'[g] = "sleep" => pc[g] = "asm_return"
              /\ pc'[g] = "loop_top" => pc[g] \in {"sleep", "check_keys"}
              /\ pc[g] = "vle_except" => pc'[g] \in {"vle_return", "done"}
              /\ pc[g] = "asm_except" => pc'[g] \in {"asm_return", "done"}
        /\ iteration'[g] # iteration[g] => pc'[g] = "vle_connect"
        /\ pc[g] = "vle_return" /\ ~batch_committed[g] => studentvle = pre_batch[g]
        /\ pc[g] = "asm_return" /\ ~batch_committed[g] =>
              studentassessment = pre_batch[g]]_vars

\* The second iteration has reached its sleep; one of the two activity
\* batches of the run was skipped or rolled back and added nothing to the
\* total, the other one and both assessment batches committed.
Wit_C17_SleepAfterFailedActivityBatch ==
    /\ pc[1] = "sleep" /\ iteration[1] = 2 /\ completed[1] = 2
    /\ total_vle_records[1] = MaxBatchVle
    /\ total_assessment_records[1] = 2 * MaxBatchAsm
    /\ committed_counts[1].vle = MaxBatchVle

\* The key of the record a step of generator g's assessment batch wrote: the
\* one whose sample count grew.
Touched(g) ==
    {k \in DOMAIN sampled'[g] :
        k \notin DOMAIN sampled[g] \/ sampled'[g][k].n # sampled[g][k].n}

\* C18: the step of an assessment batch that updates a stored submission
\* changes, in the table as the batch sees it, only the rows of the sampled
\* key; each of them keeps its is_banked and gets the sampled score and
\* date_submitted. A present key that a committed batch sampled has the
\* is_banked it had before the batch.
Thm_C18_UpdateKeepsBanked ==
    [][\A g \in Gens :
        /\ (pc[g] \in AsmPcs /\ records_updated'[g] = records_updated[g] + 1) =>
              /\ Cardinality(Touched(g)) = 1
              /\ studentassessment' = studentassessment
              /\ \A k \in AsmKeys :
                    LET old == Rows(studentassessment, tx[g], k)
                        new == Rows(studentassessment', tx'[g], k)
                    IN  /\ Len(new) = Len(old)
                        /\ k \notin Touched(g) => new = old
                        /\ k \in Touched(g) =>
                              /\ Len(old) > 0
                              /\ \A j \in 1..Len(old) :
                                    new[j] = [date_submitted |->
                                                 sampled'[g][k].date_submitted,
                                              is_banked |-> old[j].is_banked,
                                              score |-> sampled'[g][k].score]
        /\ (pc[g] = "asm_return" /\ batch_committed[g]) =>
              \A k \in DOMAIN sampled[g] :
                  Len(pre_batch[g][k]) = 1 =>
                      studentassessment[k][1].is_banked = pre_batch[g][k][1].is_banked
       ]_vars

\* A run whose banked flag is drawn from both values, in an assessment batch
\* that has updated the stored banked row of one key to another score and
\* inserted a row for another key.
Wit_C18_BankedRowUpdated ==
    /\ pc[1] \in AsmPcs /\ draws.banked = {0, 1}
    /\ \E r \in DOMAIN tx[1].upd :
          /\ studentassessment[r[1]][1].is_banked = 1
          /\ studentassessment[r[1]][1].score = 550
          /\ tx[1].upd[r] = [date_submitted |-> 20, is_banked |-> 1, score |-> 700]
    /\ DOMAIN tx[1].ins # {}

\* The control points at which a generator holds the connection it opened.
ConnectedPcs ==
    {"fetch_students", "fetch_modules", "fetch_sites", "fetch_assessments"}
        \cup VlePcs \cup AsmPcs

Thm_C20_ClicksMonotone ==
    [][\A g \in Gens :
        /\ \A k \in VleKeys :
              /\ Len(studentvle'[k]) >= Len(studentvle[k])
              /\ \A j \in 1..Len(studentvle'[k]) :
                    IF j <= Len(studentvle[k])
                    THEN studentvle'[k][j] >= studentvle[k][j]
                    ELSE studentvle'[k][j] >= 1
        /\ (pc[g] \in VlePcs /\ pc'[g] \in VlePcs) =>
              \A k \in VleKeys :
                  LET old == Rows(studentvle, tx[g], k)
                      new == Rows(studentvle', tx'[g], k)
                  IN  /\ Len(new) >= Len(old)
                      /\ \A j \in 1..Len(new) :
                            IF j <= Len(old) THEN new[j] >= old[j] ELSE new[j] >= 1
        /\ (pc[g] = "vle_commit" /\ pc'[g] = "vle_return") =>
              \A k \in DOMAIN sampled[g] :
                  /\ Len(studentvle'[k]) > 0
                  /\ \A j \in 1..Len(studentvle[k]) :
                        studentvle'[k][j] >= studentvle[k][j] + 1
        /\ (pc[g] = "vle_except" /\ pc'[g] # pc[g]) => studentvle' = studentvle
       ]_vars

\* The activity batch of the second iteration has committed: it raised the
\* sum_click of a row stored before it and created the row of another key.
Wit_C20_RaisedAndCreated ==
    /\ pc[1] = "vle_return" /\ batch_committed[1] /\ iteration[1] = 2
    /\ \E k \in DOMAIN sampled[1] :
          /\ Len(pre_batch[1][k]) = 1
          /\ studentvle[k][1] > pre_batch[1][k][1]
    /\ \E k \in DOMAIN sampled[1] :
          /\ Len(pre_batch[1][k]) = 0
          /\ Len(studentvle[k]) = 1 /\ studentvle[k][1] >= 1

\* The keys generator g has sampled in the batch in flight or written in its
\* open transaction.
UsedKeys(g) == DOMAIN sampled[g] \cup WrittenKeys(tx[g])

\* C11: the snapshot is set once, by the step that ends the load, and no
\* later step changes it, whatever other clients do to the reference tables
\* while the generator runs: a running generator holds the snapshot it held
\* one step before, and every key a batch samples or writes is made of
\* values of that snapshot, so never of a value another client added since.
Thm_C11_SnapshotConstant ==
    [][\A g \in Gens :
        /\ valid_keys'[g] # valid_keys[g] =>
              pc[g] = "fetch_assessments" /\ valid_keys[g] = NoKeys
        /\ Phase(g) = "RUNNING" =>
              /\ valid_keys[g] # NoKeys
              /\ valid_keys'[g] = valid_keys[g]
        /\ pc'[g] \in VlePcs =>
              \A k \in UsedKeys(g)' :
                  /\ k[1] \in valid_keys[g][1].students
                  /\ k[2] \in valid_keys[g][1].sites
                  /\ k[1] \notin studentinfo' \ valid_keys[g][1].students
                  /\ k[2] \notin vle' \ valid_keys[g][1].sites
        /\ pc'[g] \in AsmPcs =>
              \A k \in UsedKeys(g)' :
                  /\ k[1] \in valid_keys[g][1].students
                  /\ k[2] \in valid_keys[g][1].assessments
                  /\ k[1] \notin studentinfo' \ valid_keys[g][1].students
                  /\ k[2] \notin assessments' \ valid_keys[g][1].assessments
       ]_vars

\* Another client has added student 13 and assessment 2; the assessment batch
\* of the second iteration has written all its records, with the snapshot
\* still holding the students and the assessment of the load.
Wit_C11_AddedKeysNotSampled ==
    /\ 13 \in studentinfo /\ 2 \in assessments
    /\ pc[1] = "asm_commit" /\ iteration[1] = 2
    /\ valid_keys[1][1].students = {11, 12}
    /\ valid_keys[1][1].assessments = {1}
    /\ Cardinality(UsedKeys(1)) = 2

\* The sum of the increments generator g sampled for key k in its batch.
Inc(g, k) == IF k \in DOMAIN sampled[g] THEN sampled[g][k] ELSE 0

\* Both generators have committed a batch that started from the same table.
BothCommitted(g, h, p) ==
    /\ g # h /\ pc[g] = p /\ pc[h] = p
    /\ batch_committed[g] /\ batch_committed[h]
    /\ pre_batch[g] = pre_batch[h]

Commits(g, p) == pc[g] = p /\ batch_committed'[g] /\ ~batch_committed[g]

\* C13: with two generators a key can come to hold two rows, and only by the
\* check-then-insert race: the fact tables change only when a batch commits;
\* a commit gives a key more than one row only if the committing batch
\* inserted the key, which was absent when the batch began and when it ran
\* its existence check, while the other generator has committed a row for
\* the key since; and no key ever holds more rows than there are generators.
Thm_C13_DoubleInsert ==
    [][/\ studentvle' # studentvle => \E g \in Gens : Commits(g, "vle_commit")
       /\ studentassessment' # studentassessment =>
             \E g \in Gens : Commits(g, "asm_commit")
       /\ \A g \in Gens :
             /\ Commits(g, "vle_commit") =>
                   \A k \in VleKeys :
                       (Len(studentvle'[k]) > 1 /\ Len(studentvle[k]) <= 1) =>
                           /\ Len(studentvle[k]) = 1
                           /\ Len(pre_batch[g][k]) = 0
                           /\ k \in DOMAIN tx[g].ins /\ Len(tx[g].ins[k]) = 1
             /\ Commits(g, "asm_commit") =>
                   \A k \in AsmKeys :
                       (Len(studentassessment'[k]) > 1
                           /\ Len(studentassessment[k]) <= 1) =>
                           /\ Len(studentassessment[k]) = 1
                           /\ Len(pre_batch[g][k]) = 0
                           /\ k \in DOMAIN tx[g].ins /\ Len(tx[g].ins[k]) = 1
       /\ \A k \in VleKeys : Len(studentvle'[k]) <= Cardinality(Gens)
       /\ \A k \in AsmKeys : Len(studentassessment'[k]) <= Cardinality(Gens)
      ]_vars

\* Both generators have committed an activity batch that began when the key
\* was absent and in which each sampled it for all its records: the key holds
\* two rows.
Wit_C13_TwoRowsForOneKey ==
    /\ BothCommitted(1, 2, "vle_return")
    /\ \E k \in DOMAIN sampled[1] \cap DOMAIN sampled[2] :
          /\ Len(pre_batch[1][k]) = 0
          /\ sampled[1][k] = MaxBatchVle * ClickLo
          /\ sampled[2][k] = MaxBatchVle * ClickLo
          /\ Len(studentvle[k]) = 2

\* Generator g has run the iterations the model allows and is at the top of
\* the loop again.
AtBound(g) == pc[g] = "loop_top" /\ iteration[g] = MaxIter

\* C16: a generator leaves RUNNING only in the step of an interrupt or of an
\* error that escaped a batch; left alone it goes on iterating (in the model,
\* up to the bound), whatever batches fail; the step of the interrupt ends
\* the run with the report of the totals and the iteration count, and the
\* report is made in that step only and never changed afterwards.
Thm_C16_RunsUntilInterrupted ==
    /\ [][\A g \in Solo :
            /\ (Phase(g) = "RUNNING" /\ PhaseOf(pc'[g]) # "RUNNING") =>
                  Interrupted(g) \/ Escaped(g)
            /\ Interrupted(g) =>
                  /\ PhaseOf(pc'[g]) = "TERMINATED"
                  /\ reported'[g] = FinalReport(g)
            /\ ~Interrupted(g) => reported'[g] = reported[g]]_vars
    /\ \A g \in Solo :
          (Phase(g) = "RUNNING") ~> (Phase(g) = "TERMINATED" \/ AtBound(g))
    /\ [](\A g \in Solo :
            exit_reason[g] = "interrupted" =>
                Phase(g) = "TERMINATED" /\ reported[g].iteration = iteration[g])

\* A generator that ran all the iterations the model allows, came back to the
\* top of the loop and was interrupted there: it has reported them.
Wit_C16_InterruptedAtBound ==
    /\ exit_reason[1] = "interrupted" /\ left_at[1] = "loop_top"
    /\ reported[1].iteration = MaxIter
    /\ reported[1].vle = MaxIter * MaxBatchVle
    /\ pc[1] = "done"

\* The snapshot generator g loaded leaves the activity batch nothing to sample.
VleStarved(g) == Len(valid_keys[g]) = 1 /\ VleSamples(valid_keys[g][1]) = {}

\* The snapshot generator g loaded leaves the assessment batch nothing to sample.
AsmStarved(g) == Len(valid_keys[g]) = 1 /\ AsmSamples(valid_keys[g][1]) = {}

\* C21: a snapshot that loaded with an empty catalogue does not end the run:
\* main enters the loop; a batch that has nothing to sample raises at its
\* first record, before any statement, is rolled back and returns 0; no step
\* changes that batch's table and its running total stays 0, also in the
\* final report; the generator leaves RUNNING only by the interrupt or by an
\* error that escaped a batch, and left alone it goes on iterating (in the
\* model, up to the bound).
Thm_C21_EmptyCatalogueLoops ==
    /\ [][\A g \in Solo :
            /\ (/\ pc[g] = "check_keys" /\ Len(valid_keys[g]) = 1
                /\ pc'[g] # pc[g] /\ exit_reason'[g] # "crash") =>
                  pc'[g] = "loop_top" /\ exit_reason'[g] = None
            /\ (VleStarved(g) /\ pc[g] = "vle_select" /\ Goes(g)) =>
                  pc'[g] = "vle_except" /\ loop_i[g] = 0 /\ tx'[g] = NoTx
            /\ (VleStarved(g) /\ pc[g] = "vle_except" /\ Goes(g)) =>
                  pc'[g] = "vle_return" /\ vle_records'[g] = 0
            /\ (AsmStarved(g) /\ pc[g] = "asm_select" /\ Goes(g)) =>
                  pc'[g] = "asm_except" /\ loop_i[g] = 0 /\ tx'[g] = NoTx
            /\ (AsmStarved(g) /\ pc[g] = "asm_except" /\ Goes(g)) =>
                  pc'[g] = "asm_return" /\ assessment_records'[g] = 0
            /\ VleStarved(g) =>
                  studentvle' = studentvle /\ total_vle_records'[g] = 0
            /\ AsmStarved(g) =>
                  /\ studentassessment' = studentassessment
                  /\ total_assessment_records'[g] = 0
            /\ (Phase(g) = "RUNNING" /\ PhaseOf(pc'[g]) # "RUNNING") =>
                  Interrupted(g) \/ Escaped(g)]_vars
    /\ \A g \in Solo :
          (Phase(g) = "RUNNING") ~> (Phase(g) = "TERMINATED" \/ AtBound(g))
    /\ [](\A g \in Solo :
            /\ (VleStarved(g) /\ pc[g] \in VlePcs) => tx[g] = NoTx
            /\ (AsmStarved(g) /\ pc[g] \in AsmPcs) => tx[g] = NoTx
            /\ (VleStarved(g) /\ exit_reason[g] = "interrupted") =>
                  reported[g].vle = 0
            /\ (AsmStarved(g) /\ exit_reason[g] = "interrupted") =>
                  reported[g].assessment = 0
            /\ VleStarved(g) => committed_counts[g].vle = 0
            /\ AsmStarved(g) => committed_counts[g].assessment = 0)

\* No student is registered: in the last iteration the model allows, the
\* assessment batch got its connection, failed and was rolled back after the
\* activity batch had; both running totals are still 0.
Wit_C21_BothBatchesFailedTwice ==
    /\ studentinfo = {} /\ VleStarved(1) /\ AsmStarved(1)
    /\ pc[1] = "asm_return" /\ left_at[1] = None
    /\ iteration[1] = MaxIter
    /\ assessment_records[1] = 0 /\ open_conns[1] = 0
    /\ total_vle_records[1] = 0 /\ total_assessment_records[1] = 0

\* The control points of a batch in flight: its connection is open and its
\* commit has not been done.
InFlightPcs == VlePcs \cup AsmPcs

\* C22: an interrupt that arrives while a batch is in flight and before its
\* commit goes straight to the end of the run: no commit is done and the batch
\* returns no count, both fact tables stay as committed, the connection is
\* closed and the transaction's writes are gone; the reported totals are the
\* counts of the batches committed before, and the reported iteration count
\* is one more than the number of iterations that ran to their end. In every
\* state reached after an interrupt the reported totals are at most the
\* counts of the committed batches.
Thm_C22_InterruptedBatchNotCounted ==
    /\ [][\A g \in Solo :
            (Interrupted(g) /\ pc[g] \in InFlightPcs) =>
                /\ pc'[g] = "done"
                /\ committed_counts'[g] = committed_counts[g]
                /\ vle_records'[g] = vle_records[g]
                /\ assessment_records'[g] = assessment_records[g]
                /\ studentvle' = studentvle
                /\ studentassessment' = studentassessment
                /\ open_conns[g] = 1 /\ open_conns'[g] = 0 /\ tx'[g] = NoTx
                /\ reported'[g].vle = committed_counts[g].vle
                /\ reported'[g].assessment = committed_counts[g].assessment
                /\ reported'[g].iteration = completed[g] + 1]_vars
    /\ [](\A g \in Solo :
            exit_reason[g] = "interrupted" =>
                /\ reported[g].vle <= committed_counts[g].vle
                /\ reported[g].assessment <= committed_counts[g].assessment
                /\ reported[g].vle = total_vle_records[g]
                /\ reported[g].assessment = total_assessment_records[g])

\* A run interrupted in its second iteration when every record of the activity
\* batch was written and the commit was still to come: it reports two
\* iterations and the records of the first iteration only.
Wit_C22_SecondBatchInterruptedAtCommit ==
    /\ exit_reason[1] = "interrupted" /\ left_at[1] = "vle_commit"
    /\ reported[1].iteration = 2 /\ completed[1] = 1
    /\ reported[1].vle = MaxBatchVle /\ committed_counts[1].vle = MaxBatchVle
    /\ reported[1].assessment = MaxBatchAsm
    /\ tx[1] = NoTx /\ open_conns[1] = 0

====
